---- MODULE Spec2Model ----
(***************************************************************************)
(* ConePilot: the nearest-neighbour path planner (services/tsp.ts), the    *)
(* simulation engine that replays a planned path (RobotNode.tsx driving    *)
(* the zustand store of useSessionStore.ts) and the HTTP link client       *)
(* (services/rosbridge.ts).                                                *)
(*                                                                         *)
(* The specifications of the module:                                       *)
(*   SpecTsp     calculateOptimalPath run statement by statement on        *)
(*               bounded inputs;                                           *)
(*   Spec        the store, the control panel handlers and the RobotNode   *)
(*               path effect with its tweens and hardware-step intervals;  *)
(*   SpecApi     Spec plus direct calls of the store's exported            *)
(*               operations;                                               *)
(*   SpecThrow   Spec plus store subscribers that throw;                   *)
(*   SpecRun     Spec with the user idle while a run is in progress, and   *)
(*               weak fairness of the engine's steps;                      *)
(*   SpecLink    the RosBridge client with its fetches and poll timers;    *)
(*   SpecLinkSeq SpecLink with every connect awaited by its caller;        *)
(*   SpecCmd     SpecLinkSeq plus the command requests.                    *)
(* Lengths are in hundredths of a metre (or of a pixel), times in ms.      *)
(***************************************************************************)
EXTENDS Integers, Sequences, FiniteSets, TLC

VARIABLES
    \* ---- calculateOptimalPath (tsp.ts) ----
    tspPoints,      \* the argument `points`
    tspStart,       \* the argument `startPosition`
    tspRemaining,   \* local `remaining`
    tspResult,      \* local `result` (the returned array once tspPc = "done")
    tspCurrent,     \* local `current`
    tspPc,          \* "call" | "loop" | "done"
    \* ---- useSessionStore (the zustand state) and the page shown ----
    store,          \* the store's state object
    page,           \* "dashboard" | "session": which route is mounted
    \* ---- RobotNode ----
    activeTweens,   \* activeTweens.current: the tweens created since the last cleanup
    timeouts,       \* timeouts.current: the interval handles pushed since then
    playing,        \* Konva: the tweens that are playing (their onFinish is pending)
    intervals,      \* browser: the live setInterval timers, each with its `elapsed`
    runs,           \* how many times the path effect has started a traversal
    paths,          \* paths[r]: the `path` prop captured by the r-th traversal
    todo,           \* the statements left to execute in the running JS task
    \* ---- history variables, read by the properties only ----
    cancelled,      \* the last stop of an active run: status before, store after
    histAtPlacing,  \* placementHistory as it was when the last placement began
    phase,          \* the phase the current traversal began last (none: NoPhase)
    \* ---- RosBridge (rosbridge.ts) and the browser around it ----
    baseUrl,        \* this.baseUrl
    pollInterval,   \* this.pollInterval: a timer handle, or 0 for null
    connected,      \* this._connected
    liveTimers,     \* browser: the setInterval timers that have not been cleared
    fetches,        \* the requests in flight, each with the call or timer awaiting it
    connects,       \* how many connect calls have been made
    connectResult,  \* connectResult[c]: "pending" | "ok" | "failed" of the c-th call
    lastConnCb,     \* the value last handed to onConnectionChange: "none" | "true" | "false"
    posesFrom,      \* the timers whose polls have delivered a pose to onPoseUpdate
    \* ---- history variables of the link, read by the properties only ----
    event,          \* what the last step of the link client did
    sinceDisconnect \* a caller's disconnect() has run and connect was not called since

tspVars == <<tspPoints, tspStart, tspRemaining, tspResult, tspCurrent, tspPc>>

simVars == <<store, page, activeTweens, timeouts, playing, intervals, runs, paths,
             todo, cancelled, histAtPlacing, phase>>

linkVars == <<baseUrl, pollInterval, connected, liveTimers, fetches, connects,
              connectResult, lastConnCb, posesFrom, event, sinceDisconnect>>

\* the variables the planner leaves alone
notTspVars == <<simVars, linkVars>>

vars == <<tspPoints, tspStart, tspRemaining, tspResult, tspCurrent, tspPc,
          store, page, activeTweens, timeouts, playing, intervals, runs, paths,
          todo, cancelled, histAtPlacing, phase,
          baseUrl, pollInterval, connected, liveTimers, fetches, connects,
          connectResult, lastConnCb, posesFrom, event, sinceDisconnect>>

-----------------------------------------------------------------------------
(* Bounds of the model *)

\* coordinates of planner inputs range over 0..GridMax on both axes
GridMax == 1
\* planner inputs have at most MaxPoints points
MaxPoints == 3
\* the path effect starts at most MaxRuns traversals
MaxRuns == 2
\* connect is called at most MaxConnects times
MaxConnects == 2

-----------------------------------------------------------------------------
(* Arithmetic helpers *)

RECURSIVE ISqrtIter(_, _, _)
ISqrtIter(n, lo, hi) ==
    IF lo >= hi THEN lo
    ELSE LET mid == (lo + hi + 1) \div 2
         IN  IF mid * mid <= n THEN ISqrtIter(n, mid, hi)
                               ELSE ISqrtIter(n, lo, mid - 1)

\* Math.sqrt on a fixed-point grid: the floor of the square root
ISqrt(n) == ISqrtIter(n, 0, 46340)

\* Math.pow(v, 2)
Pow2(v) == v * v

RECURSIVE SeqSum(_)
SeqSum(s) == IF s = <<>> THEN 0 ELSE Head(s) + SeqSum(Tail(s))

\* a splice that always drops the first element, whatever index was chosen
SpliceFirst(s, i) == [k \in 1..(Len(s) - 1) |-> s[k + 1]]

\* Array.prototype.splice(i, 1)
Splice(s, i) == [k \in 1..(Len(s) - 1) |-> IF k < i THEN s[k] ELSE s[k + 1]]

-----------------------------------------------------------------------------
(* services/rosbridge.ts: class RosBridge, with both callbacks registered *)

\* the addresses connect is called with: a bridge that answers (written with a
\* trailing slash) and one that does not
Urls == { [host |-> "up", slash |-> TRUE], [host |-> "down", slash |-> FALSE] }

\* the empty string
NoUrl == [host |-> "", slash |-> FALSE]

\* url.replace(/\/$/, '')
StripSlash(url) == [url EXCEPT !.slash = FALSE]

\* what a request to `url` can come back with: an OK response with a JSON
\* body, a non-OK response, or a rejection (network error, unparsable body);
\* the unreachable host only ever rejects
Outcomes(url) == IF url.host = "down" THEN {"throw"} ELSE {"ok", "notok", "throw"}

\* what a command's request can come back with: the fetch rejects, or it is
\* answered with an OK or non-OK status and a body that parses as JSON or not
Responses(url) ==
    IF url.host = "down"
    THEN { [net |-> "rejected", ok |-> FALSE, json |-> FALSE] }
    ELSE { [net |-> "rejected", ok |-> FALSE, json |-> FALSE] } \cup
         { [net |-> "answered", ok |-> o, json |-> j] : o \in BOOLEAN, j \in BOOLEAN }

\* the command operations, lines 76-130
Commands == {"navigateToPoint", "sendWaypoints", "sendVelocity", "stop", "getStatus"}

InitLink ==
    /\ baseUrl = NoUrl
    /\ pollInterval = 0
    /\ connected = FALSE
    /\ liveTimers = {}
    /\ fetches = {}
    /\ connects = 0
    /\ connectResult = <<>>
    /\ lastConnCb = "none"
    /\ posesFrom = {}
    /\ event = [type |-> "init"]
    /\ sinceDisconnect = FALSE

\* the fields disconnect() reads and writes, the browser's timer table and
\* what the connection callback was last told
LinkState ==
    [liveTimers |-> liveTimers,
     pollInterval |-> pollInterval,
     connected |-> connected,
     baseUrl |-> baseUrl,
     lastConnCb |-> lastConnCb]

\* a disconnect that also reports the change to onConnectionChange
DisconnectOfNotifying(s) ==
    [liveTimers |-> IF s.pollInterval # 0 THEN s.liveTimers \ {s.pollInterval}
                    ELSE s.liveTimers,
     pollInterval |-> 0,
     connected |-> FALSE,
     baseUrl |-> NoUrl,
     lastConnCb |-> "false"]

\* disconnect(), lines 67-74, as a function of the state it is called in
DisconnectOf(s) ==
    [liveTimers |-> IF s.pollInterval # 0 THEN s.liveTimers \ {s.pollInterval}
                    ELSE s.liveTimers,
     pollInterval |-> 0,
     connected |-> FALSE,
     baseUrl |-> NoUrl,
     lastConnCb |-> s.lastConnCb]

\* disconnect(), lines 67-74, as the values it leaves in the three fields and
\* in the browser's timer table
AfterDisconnect == DisconnectOf(LinkState)

\* a caller invokes disconnect()
Disconnect ==
    /\ liveTimers' = AfterDisconnect.liveTimers
    /\ pollInterval' = AfterDisconnect.pollInterval
    /\ connected' = AfterDisconnect.connected
    /\ baseUrl' = AfterDisconnect.baseUrl
    /\ lastConnCb' = AfterDisconnect.lastConnCb
    /\ event' = [type |-> "disconnect"]
    /\ sinceDisconnect' = TRUE
    /\ UNCHANGED <<fetches, connects, connectResult, posesFrom>>
    /\ UNCHANGED <<tspVars, simVars>>

\* connect(url) up to its first await, lines 35-41: disconnect, set baseUrl,
\* issue GET {base}/status
Connect(url) ==
    /\ connects < MaxConnects
    /\ connects' = connects + 1
    /\ connectResult' = Append(connectResult, "pending")
    /\ liveTimers' = AfterDisconnect.liveTimers
    /\ pollInterval' = AfterDisconnect.pollInterval
    /\ connected' = AfterDisconnect.connected
    /\ lastConnCb' = AfterDisconnect.lastConnCb
    /\ baseUrl' = StripSlash(url)
    /\ fetches' = fetches \cup
          {[kind |-> "status", by |-> connects + 1, url |-> StripSlash(url)]}
    /\ event' = [type |-> "connect", by |-> connects + 1]
    /\ sinceDisconnect' = FALSE
    /\ UNCHANGED posesFrom
    /\ UNCHANGED <<tspVars, simVars>>

\* a connect that marks the client connected before it looks at the probe
RejectedConnected(f) ==
    /\ connectResult' = [connectResult EXCEPT ![f.by] = "failed"]
    /\ event' = [type |-> "connectFailed", by |-> f.by]
    /\ connected' = TRUE
    /\ UNCHANGED <<lastConnCb, pollInterval, liveTimers>>

\* lines 41-44: the fetch rejects, the response is not OK or its body does
\* not parse: connect throws to its caller
Rejected(f) ==
    /\ connectResult' = [connectResult EXCEPT ![f.by] = "failed"]
    /\ event' = [type |-> "connectFailed", by |-> f.by]
    /\ UNCHANGED <<connected, lastConnCb, pollInterval, liveTimers>>

\* lines 47-64: connected, the callback told, a new poll timer started
Established(f) ==
    /\ connected' = TRUE
    /\ lastConnCb' = "true"
    /\ pollInterval' = f.by
    /\ liveTimers' = liveTimers \cup {f.by}
    /\ connectResult' = [connectResult EXCEPT ![f.by] = "ok"]
    /\ event' = [type |-> "connectOk", by |-> f.by, url |-> f.url]

\* connect after the await, lines 42-64: a rejected or non-OK probe throws to
\* the caller; otherwise the client is connected and a new poll timer starts
ConnectResponse(f) ==
    /\ f \in fetches
    /\ f.kind = "status"
    /\ fetches' = fetches \ {f}
    /\ \E outcome \in Outcomes(f.url) :
         IF outcome = "ok" THEN Established(f) ELSE Rejected(f)
    /\ UNCHANGED <<baseUrl, connects, posesFrom, sinceDisconnect>>
    /\ UNCHANGED <<tspVars, simVars>>

\* the interval callback up to its await, lines 51-53: GET {this.baseUrl}/odom
\* with the base URL of this moment (one request in flight per timer)
PollTick(timer) ==
    /\ timer \in liveTimers
    /\ \A f \in fetches : ~(f.kind = "odom" /\ f.by = timer)
    /\ fetches' = fetches \cup {[kind |-> "odom", by |-> timer, url |-> baseUrl]}
    /\ event' = [type |-> "tick", by |-> timer]
    /\ UNCHANGED <<baseUrl, pollInterval, connected, liveTimers, connects,
                   connectResult, lastConnCb, posesFrom, sinceDisconnect>>
    /\ UNCHANGED <<tspVars, simVars>>

\* a catch block that marks the client disconnected but leaves the timer alone
PollCatchKeepsTimer(f) ==
    /\ lastConnCb' = "false"
    /\ connected' = FALSE
    /\ event' = [type |-> "pollFailed", by |-> f.by]
    /\ UNCHANGED <<liveTimers, pollInterval, baseUrl, posesFrom>>

\* the catch block, lines 58-63
PollCatch(f) ==
    /\ lastConnCb' = "false"
    /\ liveTimers' = AfterDisconnect.liveTimers
    /\ pollInterval' = AfterDisconnect.pollInterval
    /\ connected' = AfterDisconnect.connected
    /\ baseUrl' = AfterDisconnect.baseUrl
    /\ event' = [type |-> "pollFailed", by |-> f.by]
    /\ UNCHANGED posesFrom

\* a callback that treats a response that is not OK as a failed poll
PollNotOkDisconnects(f) ==
    /\ lastConnCb' = "false"
    /\ liveTimers' = AfterDisconnect.liveTimers
    /\ pollInterval' = AfterDisconnect.pollInterval
    /\ connected' = AfterDisconnect.connected
    /\ baseUrl' = AfterDisconnect.baseUrl
    /\ event' = [type |-> "pollNotOk", by |-> f.by]
    /\ UNCHANGED posesFrom

\* line 54 with res.ok false: the if has no else, and nothing is done
PollNotOk(f) ==
    /\ event' = [type |-> "pollNotOk", by |-> f.by]
    /\ UNCHANGED <<baseUrl, pollInterval, connected, liveTimers, lastConnCb, posesFrom>>

\* the interval callback after its await, lines 54-63
PollResponse(f) ==
    /\ f \in fetches
    /\ f.kind = "odom"
    /\ fetches' = fetches \ {f}
    /\ \E outcome \in Outcomes(f.url) :
         CASE outcome = "ok" ->
                /\ posesFrom' = posesFrom \cup {f.by}
                /\ event' = [type |-> "pose", by |-> f.by]
                /\ UNCHANGED <<baseUrl, pollInterval, connected, liveTimers, lastConnCb>>
           [] outcome = "notok" -> PollNotOk(f)
           [] OTHER -> PollCatch(f)
    /\ UNCHANGED <<connects, connectResult, sinceDisconnect>>
    /\ UNCHANGED <<tspVars, simVars>>

NextLink ==
    \/ Disconnect
    \/ \E url \in Urls : Connect(url)
    \/ \E f \in fetches : ConnectResponse(f)
    \/ \E timer \in liveTimers : PollTick(timer)
    \/ \E f \in fetches : PollResponse(f)

\* SessionControls: the connect button is disabled while a connect is awaited
\* (isConnecting) and the disconnect button shows only once connected, so the
\* panel calls connect and disconnect only when no connect is in flight
Awaited == \A f \in fetches : f.kind # "status"

AwaitedConnect(url) == Awaited /\ Connect(url)

AwaitedDisconnect == Awaited /\ Disconnect

NextLinkSeq ==
    \/ AwaitedDisconnect
    \/ \E url \in Urls : AwaitedConnect(url)
    \/ \E f \in fetches : ConnectResponse(f)
    \/ \E timer \in liveTimers : PollTick(timer)
    \/ \E f \in fetches : PollResponse(f)


\* what a command returns when the client is not connected, lines 77, 91,
\* 105-108, 118, 123
NotConnectedReturn(op) ==
    CASE op \in {"navigateToPoint", "sendWaypoints"} -> "false"
      [] op \in {"sendVelocity", "stop"} -> "void"
      [] OTHER -> "null"

\* what a command returns for the response r of its one request:
\* navigateToPoint and sendWaypoints return res.ok, false on a rejection
\* (lines 78-87, 92-101); sendVelocity and stop swallow a rejection with
\* .catch (lines 110-114, 119); getStatus returns the parsed body whatever the
\* status, null when the fetch rejects or the body does not parse (124-129)
CommandReturn(op, r) ==
    CASE op \in {"navigateToPoint", "sendWaypoints"} ->
            IF r.net = "answered" /\ r.ok THEN "true" ELSE "false"
      [] op \in {"sendVelocity", "stop"} -> "void"
      [] OTHER ->
            IF r.net = "answered" /\ r.json THEN "body" ELSE "null"

\* a command is called: without a connection it returns at once, otherwise it
\* issues its one request (one command is in flight at a time)
Command(op) ==
    /\ \A f \in fetches : f.kind \notin Commands
    /\ IF ~connected
       THEN /\ event' = [type |-> "return", op |-> op, sent |-> 0, wasConnected |-> FALSE,
                         failed |-> FALSE, value |-> NotConnectedReturn(op)]
            /\ UNCHANGED fetches
       ELSE /\ event' = [type |-> "request", op |-> op]
            /\ fetches' = fetches \cup {[kind |-> op, by |-> 0, url |-> baseUrl]}
    /\ UNCHANGED <<baseUrl, pollInterval, connected, liveTimers, connects,
                   connectResult, lastConnCb, posesFrom, sinceDisconnect>>
    /\ UNCHANGED <<tspVars, simVars>>

\* the command's request comes back and the command returns
CommandResponse(f) ==
    /\ f \in fetches
    /\ f.kind \in Commands
    /\ fetches' = fetches \ {f}
    /\ \E r \in Responses(f.url) :
         event' = [type |-> "return", op |-> f.kind, sent |-> 1, wasConnected |-> TRUE,
                   failed |-> (r.net = "rejected" \/ ~r.ok),
                   value |-> CommandReturn(f.kind, r)]
    /\ UNCHANGED <<baseUrl, pollInterval, connected, liveTimers, connects,
                   connectResult, lastConnCb, posesFrom, sinceDisconnect>>
    /\ UNCHANGED <<tspVars, simVars>>

NextCmd ==
    \/ NextLinkSeq
    \/ \E op \in Commands : Command(op)
    \/ \E f \in fetches : CommandResponse(f)


-----------------------------------------------------------------------------
(* services/tsp.ts *)

Point(id, x, y) == [id |-> id, x |-> x, y |-> y]

\* distance(a, b), in hundredths
distance(a, b) == ISqrt((Pow2(a.x - b.x) + Pow2(a.y - b.y)) * 10000)

\* the scan with `d <= nearestDistance`: among equidistant points the last wins
RECURSIVE NearestScanLE(_, _, _, _, _)
NearestScanLE(current, remaining, i, nearestIndex, nearestDistance) ==
    IF i > Len(remaining) THEN nearestIndex
    ELSE LET d == distance(current, remaining[i])
         IN  IF d <= nearestDistance
             THEN NearestScanLE(current, remaining, i + 1, i, d)
             ELSE NearestScanLE(current, remaining, i + 1, nearestIndex, nearestDistance)

\* the for loop of lines 28-34: scan remaining[i..] keeping the strictly nearer
RECURSIVE NearestScan(_, _, _, _, _)
NearestScan(current, remaining, i, nearestIndex, nearestDistance) ==
    IF i > Len(remaining) THEN nearestIndex
    ELSE LET d == distance(current, remaining[i])
         IN  IF d < nearestDistance
             THEN NearestScan(current, remaining, i + 1, i, d)
             ELSE NearestScan(current, remaining, i + 1, nearestIndex, nearestDistance)

\* lines 25-34: the (1-based) index of the point chosen in this iteration
NearestIndex(current, remaining) ==
    NearestScan(current, remaining, 2, 1, distance(current, remaining[1]))

\* the whole function, as an operator (used by handleStartPlacing)
RECURSIVE NearestLoop(_, _, _)
NearestLoop(current, remaining, result) ==
    IF Len(remaining) = 0 THEN result
    ELSE LET n == NearestIndex(current, remaining)
         IN  NearestLoop(remaining[n], Splice(remaining, n), Append(result, remaining[n]))

calculateOptimalPath(points, startPosition) ==
    IF Len(points) = 0 THEN <<>>
    ELSE IF Len(points) = 1 THEN points
    ELSE NearestLoop(startPosition, points, <<>>)

\* inputs: lists of at most MaxPoints points with unique ids on the grid
\* (the id of a point is its position in the input), and an origin:
\* handleStartPlacing passes {id: 'start', x: 0, y: 0}; id 0 stands for 'start'
Coords == (0..GridMax) \X (0..GridMax)

InitTsp ==
    /\ \E n \in 0..MaxPoints :
          \E c \in [1..n -> Coords] :
             tspPoints = [i \in 1..n |-> Point(i, c[i][1], c[i][2])]
    /\ tspStart \in { Point(0, 0, 0), Point(0, 1, GridMax) }
    /\ tspRemaining = <<>>
    /\ tspResult = <<>>
    /\ tspCurrent = tspStart
    /\ tspPc = "call"

\* the planner at rest, for the specifications that do not run it
InitTsp0 ==
    /\ tspPoints = <<>>
    /\ tspStart = Point(0, 0, 0)
    /\ tspRemaining = <<>>
    /\ tspResult = <<>>
    /\ tspCurrent = Point(0, 0, 0)
    /\ tspPc = "done"

\* lines 17-22: the early returns and the locals
TspEnter ==
    /\ tspPc = "call"
    /\ IF Len(tspPoints) = 0
       THEN /\ tspResult' = <<>>
            /\ tspRemaining' = <<>>
            /\ tspPc' = "done"
       ELSE IF Len(tspPoints) = 1
       THEN /\ tspResult' = tspPoints
            /\ tspRemaining' = <<>>
            /\ tspPc' = "done"
       ELSE /\ tspResult' = <<>>
            /\ tspRemaining' = tspPoints
            /\ tspPc' = "loop"
    /\ tspCurrent' = tspStart
    /\ UNCHANGED <<tspPoints, tspStart>>
    /\ UNCHANGED notTspVars

\* lines 24-39: one iteration of the while loop
TspSelect ==
    /\ tspPc = "loop"
    /\ Len(tspRemaining) > 0
    /\ LET n == NearestIndex(tspCurrent, tspRemaining)
       IN  /\ tspCurrent' = tspRemaining[n]
           /\ tspResult' = Append(tspResult, tspRemaining[n])
           /\ tspRemaining' = Splice(tspRemaining, n)
    /\ UNCHANGED <<tspPoints, tspStart, tspPc>>
    /\ UNCHANGED notTspVars

\* line 41: the loop condition fails, return result
TspReturn ==
    /\ tspPc = "loop"
    /\ Len(tspRemaining) = 0
    /\ tspPc' = "done"
    /\ UNCHANGED <<tspPoints, tspStart, tspRemaining, tspResult, tspCurrent>>
    /\ UNCHANGED notTspVars

NextTsp == TspEnter \/ TspSelect \/ TspReturn

-----------------------------------------------------------------------------
(* store/useSessionStore.ts: the state object and its setters *)

\* {...old, ...new}: the fields of new override those of old
Merge(old, new) == [f \in DOMAIN old |-> IF f \in DOMAIN new THEN new[f] ELSE old[f]]

\* stats whose eta starts at a placeholder of one second
ZeroStatsEtaOne == [conesPlaced |-> 0, distanceTraveled |-> 0, etaSeconds |-> 1]

\* lines 83-87: the initial simulationStats
ZeroStats == [conesPlaced |-> 0, distanceTraveled |-> 0, etaSeconds |-> 0]

\* lines 88-91: the initial robotTelemetry
ZeroTelemetry == [velocity |-> 0, mechanismVelocity |-> 0]

\* lines 76-93: the state after create(); currentSession 0 is null
InitStore ==
    [currentSession |-> 0,
     optimizedPath |-> <<>>,
     isSimulating |-> FALSE,
     simulationStatus |-> "IDLE",
     simulationStats |-> ZeroStats,
     robotTelemetry |-> ZeroTelemetry,
     currentSequenceLogs |-> <<>>,
     placementHistory |-> <<>>]

setOptimizedPath(s, path) == [s EXCEPT !.optimizedPath = path]

\* a stop that also zeroes the telemetry
setIsSimulatingZeroing(s, isSimulating) ==
    [s EXCEPT !.isSimulating = isSimulating,
              !.simulationStatus = IF isSimulating THEN "MOVING" ELSE "IDLE",
              !.robotTelemetry = IF isSimulating THEN @ ELSE ZeroTelemetry]


setIsSimulating(s, isSimulating) ==
    [s EXCEPT !.isSimulating = isSimulating,
              !.simulationStatus = IF isSimulating THEN "MOVING" ELSE "IDLE"]

setSimulationStatus(s, status) == [s EXCEPT !.simulationStatus = status]

\* a setter that replaces the stats object instead of merging into it
updateSimulationStatsReplace(s, stats) ==
    [s EXCEPT !.simulationStats = Merge(ZeroStats, stats)]

updateSimulationStats(s, stats) ==
    [s EXCEPT !.simulationStats = Merge(s.simulationStats, stats)]

updateTelemetry(s, telemetry) ==
    [s EXCEPT !.robotTelemetry = Merge(s.robotTelemetry, telemetry)]

addSequenceLog(s, log) ==
    [s EXCEPT !.currentSequenceLogs = Append(s.currentSequenceLogs, log)]

\* a setter that keeps only the newest entry
addPlacementHistoryReplace(s, entry) == [s EXCEPT !.placementHistory = <<entry>>]

\* a setter that adds the entry at the back (oldest first)
addPlacementHistoryAtBack(s, entry) ==
    [s EXCEPT !.placementHistory = Append(s.placementHistory, entry)]

\* newest first
addPlacementHistory(s, entry) ==
    [s EXCEPT !.placementHistory = <<entry>> \o s.placementHistory]

clearSequenceLogs(s) == [s EXCEPT !.currentSequenceLogs = <<>>]

resetSimulationStats(s) ==
    [s EXCEPT !.simulationStats = ZeroStats,
              !.robotTelemetry = ZeroTelemetry,
              !.currentSequenceLogs = <<>>,
              !.placementHistory = <<>>,
              !.simulationStatus = "IDLE"]

\* createSession, the set() of lines 110-118 (the sessions list is not modelled)
createSessionSet(s) ==
    [s EXCEPT !.optimizedPath = <<>>,
              !.simulationStats = ZeroStats,
              !.currentSequenceLogs = <<>>,
              !.placementHistory = <<>>]

\* a session load that also zeroes the counters
loadSessionSetZeroing(s, id, robotPath) ==
    [s EXCEPT !.currentSession = id,
              !.optimizedPath = [i \in 1..Len(robotPath) |->
                                    [x |-> robotPath[i].x, y |-> robotPath[i].y]],
              !.simulationStatus = "IDLE",
              !.isSimulating = FALSE,
              !.simulationStats = ZeroStats,
              !.currentSequenceLogs = <<>>,
              !.placementHistory = <<>>]

\* loadSessionById, the set() of lines 130-140, for the session `id` whose
\* stored path is `robotPath` (empty when the session has none)
loadSessionSet(s, id, robotPath) ==
    [s EXCEPT !.currentSession = id,
              !.optimizedPath = [i \in 1..Len(robotPath) |->
                                    [x |-> robotPath[i].x, y |-> robotPath[i].y]],
              !.simulationStatus = "IDLE",
              !.isSimulating = FALSE,
              !.currentSequenceLogs = <<>>,
              !.placementHistory = <<>>]

-----------------------------------------------------------------------------
(* The sessions the server holds: their cones, field height and stored path *)

SessionIds == {1, 2, 3, 4}

\* session 1 has no cone; 2 has two cones (segments 3 m and 4 m once planned);
\* 3 has one cone off the axes; 4 has the three collinear cones A, B, C
SessionCones(id) ==
    CASE id = 1 -> <<>>
      [] id = 2 -> << Point(1, 3, 4), Point(2, 3, 0) >>
      [] id = 3 -> << Point(1, 1, 1) >>
      [] OTHER  -> << Point(1, 1, 0), Point(2, 5, 0), Point(3, 2, 0) >>

SessionFieldHeight(id) == IF id = 4 THEN 6 ELSE 5

\* only session 3 comes with a stored robotPath
SessionRobotPath(id) ==
    IF id = 3 THEN << [x |-> 0, y |-> 0], [x |-> 1, y |-> 1] >> ELSE <<>>

-----------------------------------------------------------------------------
(* components/session: ControlPanel.tsx, FieldCanvas and RobotNode.tsx *)

\* FieldCanvas: const SCALE = 40 (px per metre), passed to RobotNode as `scale`
scale == 40
\* RobotNode: const speed = 50 (px per second)
speed == 50
\* simulateHardwareStep: const stepInterval = 100 (ms)
stepInterval == 100

\* the sequence with the lift ahead of the gripper
HardwareStepsLiftFirst ==
    << [name |-> "LOWERING_CLAW_SERVO_A1",    durationMs |-> 1200, mechVelocity |-> 40],
       [name |-> "LIFTING_PAYLOAD_Z_AXIS",    durationMs |-> 1000, mechVelocity |-> 35],
       [name |-> "ENGAGING_GRIPPER_SOLENOID", durationMs |-> 600,  mechVelocity |-> 10],
       [name |-> "ACTIVATING_SPIRAL_GYRO",    durationMs |-> 800,  mechVelocity |-> 80],
       [name |-> "PAYLOAD_SECURED_CONFIRMED", durationMs |-> 200,  mechVelocity |-> 0] >>

\* runPlacementSequence, lines 58-71: name, durationMs, mechVelocity (hundredths)
HardwareSteps ==
    << [name |-> "LOWERING_CLAW_SERVO_A1",    durationMs |-> 1200, mechVelocity |-> 40],
       [name |-> "ENGAGING_GRIPPER_SOLENOID", durationMs |-> 600,  mechVelocity |-> 10],
       [name |-> "LIFTING_PAYLOAD_Z_AXIS",    durationMs |-> 1000, mechVelocity |-> 35],
       [name |-> "ACTIVATING_SPIRAL_GYRO",    durationMs |-> 800,  mechVelocity |-> 80],
       [name |-> "PAYLOAD_SECURED_CONFIRMED", durationMs |-> 200,  mechVelocity |-> 0] >>

\* Math.random() * 0.1 - 0.05 lies in [-0.05, 0.05): two of its values, in hundredths
Jitter == {-5, 4}

\* one statement of the running task
Op(name, arg) == [op |-> name, arg |-> arg]

\* handleStartPlacing, lines 13-19: the planned path with the origin in front
SimplePath(cones) ==
    LET path == calculateOptimalPath(cones, Point(0, 0, 0))
    IN  << [x |-> 0, y |-> 0] >> \o [i \in 1..Len(path) |-> [x |-> path[i].x, y |-> path[i].y]]

\* FieldCanvas, lines 232-235: the memoized `robotPath` handed to RobotNode
RobotPath(isSimulating, optimizedPath, fH) ==
    IF isSimulating
    THEN [i \in 1..Len(optimizedPath) |->
             [x |-> optimizedPath[i].x, y |-> fH - optimizedPath[i].y]]
    ELSE <<>>

\* playNextSegment, lines 116-120: distPx of segment index -> index+1 (0-based),
\* in hundredths of a pixel
DistPx(path, index) ==
    LET p1 == path[index + 1]
        p2 == path[index + 2]
    IN  ISqrt((Pow2(p2.x * scale - p1.x * scale) + Pow2(p2.y * scale - p1.y * scale)) * 10000)

\* a cleanup that clears the interval timers but leaves the tweens playing
cleanupParamsTimersOnly(n) ==
    [activeTweens |-> {},
     timeouts |-> {},
     playing |-> n.playing,
     intervals |-> {t \in n.intervals : t.h \notin n.timeouts}]

\* cleanupParams, lines 21-27: destroy every tween and clear every timer the
\* refs hold, then empty the refs
cleanupParams(n) ==
    [activeTweens |-> {},
     timeouts |-> {},
     playing |-> n.playing \ n.activeTweens,
     intervals |-> {t \in n.intervals : t.h \notin n.timeouts}]

NodeState ==
    [activeTweens |-> activeTweens, timeouts |-> timeouts,
     playing |-> playing, intervals |-> intervals]

SetNode(n) ==
    /\ activeTweens' = n.activeTweens
    /\ timeouts' = n.timeouts
    /\ playing' = n.playing
    /\ intervals' = n.intervals

NoCancel == [active |-> FALSE, status |-> "IDLE", store |-> InitStore]

\* no phase of a traversal has begun
NoPhase == [kind |-> "none", run |-> 0, index |-> 0, step |-> 0]

InitSim ==
    /\ store = InitStore
    /\ page = "dashboard"
    /\ activeTweens = {}
    /\ timeouts = {}
    /\ playing = {}
    /\ intervals = {}
    /\ runs = 0
    /\ paths = <<>>
    /\ todo = <<>>
    /\ cancelled = NoCancel
    /\ histAtPlacing = <<>>
    /\ phase = NoPhase

\* the variables the simulation leaves alone
notSimVars == <<tspVars, linkVars>>

\* no JS task is running and none is queued
Idle == todo = <<>>

\* React runs a useEffect callback and its cleanup after the commit, in a task
\* of its own (the argument of a queued "effect" or "unmount" is 0 while that
\* task is still to come): a timer or animation callback that was already due
\* can run before it, and then the effect is next (argument 1)
BetweenTasks ==
    IF todo = <<>> THEN TRUE
    ELSE Head(todo).op \in {"effect", "unmount"} /\ Head(todo).arg = 0

\* the queue once a due callback has run ahead of the queued effect
Overtaken(q) == IF q = <<>> THEN q ELSE << Op(Head(q).op, 1) >> \o Tail(q)

(* ---- the handlers the user can trigger; each queues its statements ---- *)

\* ControlPanel.handleStartPlacing; the button is disabled while isSimulating.
\* setOptimizedPath stores a new array, so robotPath changes and React queues
\* the path effect of RobotNode.
handleStartPlacing ==
    /\ Idle
    /\ page = "session"
    /\ store.currentSession # 0
    /\ ~store.isSimulating
    /\ runs < MaxRuns
    /\ todo' = << Op("setOptimizedPath", SimplePath(SessionCones(store.currentSession))),
                  Op("resetSimulationStats", 0),
                  Op("setIsSimulating", TRUE),
                  Op("effect", 0) >>
    /\ cancelled' = NoCancel
    /\ histAtPlacing' = <<>>
    /\ UNCHANGED phase
    /\ UNCHANGED <<store, page, activeTweens, timeouts, playing, intervals, runs, paths>>
    /\ UNCHANGED notSimVars

\* ControlPanel.handleStop; robotPath changes (and the effect is cleaned up and
\* re-run) only when isSimulating was true
handleStop ==
    /\ Idle
    /\ page = "session"
    /\ store.currentSession # 0
    /\ todo' = << Op("setIsSimulating", FALSE) >>
               \o (IF store.isSimulating THEN << Op("effect", 0) >> ELSE <<>>)
    /\ UNCHANGED <<store, page, activeTweens, timeouts, playing, intervals, runs, paths,
                   cancelled, histAtPlacing, phase>>
    /\ UNCHANGED notSimVars

\* leaving /session/:id for the dashboard unmounts RobotNode: the effect's
\* cleanup function (lines 174-177) runs
LeaveSession ==
    /\ Idle
    /\ page = "session"
    /\ page' = "dashboard"
    /\ todo' = << Op("unmount", 0) >>
    /\ UNCHANGED <<store, activeTweens, timeouts, playing, intervals, runs, paths,
                   cancelled, histAtPlacing, phase>>
    /\ UNCHANGED notSimVars

\* Dashboard.handleCreateSession -> createSession, on its successful response
createSession ==
    /\ Idle
    /\ page = "dashboard"
    /\ todo' = << Op("createSession", 0) >>
    /\ cancelled' = NoCancel
    /\ histAtPlacing' = <<>>
    /\ UNCHANGED phase
    /\ UNCHANGED <<store, page, activeTweens, timeouts, playing, intervals, runs, paths>>
    /\ UNCHANGED notSimVars

\* SessionView mounts and loadSessionById(id) gets its response; FieldCanvas
\* and RobotNode mount with the loaded state and the path effect runs
loadSessionById(id) ==
    /\ Idle
    /\ page = "dashboard"
    /\ page' = "session"
    /\ todo' = << Op("loadSession", id), Op("effect", 0) >>
    /\ cancelled' = NoCancel
    /\ histAtPlacing' = <<>>
    /\ UNCHANGED phase
    /\ UNCHANGED <<store, activeTweens, timeouts, playing, intervals, runs, paths>>
    /\ UNCHANGED notSimVars

(* ---- the statements of the running task, one store update at a time ---- *)

StoreOps == {"setOptimizedPath", "resetSimulationStats", "setIsSimulating",
             "setSimulationStatus", "updateSimulationStats", "updateTelemetry",
             "addSequenceLog", "clearSequenceLogs", "arrived", "saveHistory",
             "createSession", "loadSession"}

\* the store after statement o
StoreApply(s, o) ==
    CASE o.op = "setOptimizedPath"      -> setOptimizedPath(s, o.arg)
      [] o.op = "resetSimulationStats"  -> resetSimulationStats(s)
      [] o.op = "setIsSimulating"       -> setIsSimulating(s, o.arg)
      [] o.op = "setSimulationStatus"   -> setSimulationStatus(s, o.arg)
      [] o.op = "updateSimulationStats" -> updateSimulationStats(s, o.arg)
      [] o.op = "updateTelemetry"       -> updateTelemetry(s, o.arg)
      [] o.op = "addSequenceLog"        -> addSequenceLog(s, o.arg)
      [] o.op = "clearSequenceLogs"     -> clearSequenceLogs(s)
         \* RobotNode lines 159-162: reads the store's distance at this moment
      [] o.op = "arrived"               ->
            updateSimulationStats(s,
                [distanceTraveled |-> s.simulationStats.distanceTraveled + o.arg.dist,
                 conesPlaced |-> o.arg.cone])
         \* RobotNode lines 77-81: reads the store's log buffer at this moment
         \* (totalTime, a wall-clock difference, is left out)
      [] o.op = "saveHistory"           ->
            addPlacementHistory(s, [coneIndex |-> o.arg, logs |-> s.currentSequenceLogs])
      [] o.op = "createSession"         -> createSessionSet(s)
      [] OTHER                          ->
            loadSessionSet(s, o.arg, SessionRobotPath(o.arg))

ExecStore ==
    /\ todo # <<>>
    /\ Head(todo).op \in StoreOps
    /\ store' = StoreApply(store, Head(todo))
    /\ todo' = Tail(todo)
    /\ cancelled' =
          IF /\ Head(todo).op = "setIsSimulating"
             /\ Head(todo).arg = FALSE
             /\ store.simulationStatus \in {"MOVING", "PLACING"}
          THEN [active |-> TRUE, status |-> store.simulationStatus, store |-> store']
          ELSE cancelled
    /\ histAtPlacing' =
          IF Head(todo).op = "setSimulationStatus" /\ Head(todo).arg = "PLACING"
          THEN store.placementHistory
          ELSE histAtPlacing
    /\ UNCHANGED phase
    /\ UNCHANGED <<page, activeTweens, timeouts, playing, intervals, runs, paths>>
    /\ UNCHANGED notSimVars

\* the path effect, lines 89-179: React first runs the previous effect's
\* cleanup, then the body: cleanupParams, the guard on path.length, and for a
\* path of two or more points the start of a traversal
ExecEffect ==
    /\ todo # <<>>
    /\ Head(todo).op = "effect"
    /\ LET path == RobotPath(store.isSimulating, store.optimizedPath,
                             SessionFieldHeight(store.currentSession))
       IN  /\ SetNode(cleanupParams(cleanupParams(NodeState)))
           /\ IF Len(path) < 2
              THEN /\ todo' = Tail(todo)
                   /\ UNCHANGED <<runs, paths>>
              ELSE /\ runs' = runs + 1
                   /\ paths' = Append(paths, path)
                   /\ todo' = << Op("setSimulationStatus", "MOVING"),
                                 Op("segment", [run |-> runs + 1, index |-> 0]) >>
                              \o Tail(todo)
    /\ phase' = NoPhase
    /\ UNCHANGED <<store, page, cancelled, histAtPlacing>>
    /\ UNCHANGED notSimVars

\* the effect's cleanup function alone, lines 174-177 (RobotNode unmounts)
ExecUnmount ==
    /\ todo # <<>>
    /\ Head(todo).op = "unmount"
    /\ SetNode(cleanupParams(NodeState))
    /\ todo' = Tail(todo)
    /\ phase' = NoPhase
    /\ UNCHANGED <<store, page, runs, paths, cancelled, histAtPlacing>>
    /\ UNCHANGED notSimVars

\* playNextSegment(index), lines 106-136: either the path is through, or the
\* rotation tween of segment index is created, pushed and played
ExecSegment ==
    /\ todo # <<>>
    /\ Head(todo).op = "segment"
    /\ LET r == Head(todo).arg.run
           index == Head(todo).arg.index
       IN  IF index >= Len(paths[r]) - 1
           THEN /\ todo' = << Op("setSimulationStatus", "COMPLETED"),
                              Op("updateSimulationStats", [etaSeconds |-> 0]),
                              Op("updateTelemetry", [velocity |-> 0]) >>
                           \o Tail(todo)
                /\ UNCHANGED <<activeTweens, playing, phase>>
           ELSE LET t == [kind |-> "rot", run |-> r, index |-> index]
                IN  /\ activeTweens' = activeTweens \cup {t}
                    /\ playing' = playing \cup {t}
                    /\ todo' = Tail(todo)
                    /\ phase' = [kind |-> "rot", run |-> r, index |-> index, step |-> 0]
    /\ UNCHANGED <<store, page, timeouts, intervals, runs, paths, cancelled, histAtPlacing>>
    /\ UNCHANGED notSimVars

\* lines 143-154: the translation tween is created, pushed and played
ExecTween ==
    /\ todo # <<>>
    /\ Head(todo).op = "tween"
    /\ activeTweens' = activeTweens \cup {Head(todo).arg}
    /\ playing' = playing \cup {Head(todo).arg}
    /\ todo' = Tail(todo)
    /\ phase' = [kind |-> Head(todo).arg.kind, run |-> Head(todo).arg.run,
                 index |-> Head(todo).arg.index, step |-> 0]
    /\ UNCHANGED <<store, page, timeouts, intervals, runs, paths, cancelled, histAtPlacing>>
    /\ UNCHANGED notSimVars

\* simulateHardwareStep, lines 31-47: setInterval, and the handle is pushed
ExecInterval ==
    /\ todo # <<>>
    /\ Head(todo).op = "interval"
    /\ timeouts' = timeouts \cup {Head(todo).arg}
    /\ intervals' = intervals \cup {[h |-> Head(todo).arg, elapsed |-> 0]}
    /\ todo' = Tail(todo)
    /\ phase' = [kind |-> "step", run |-> Head(todo).arg.run,
                 index |-> Head(todo).arg.cone, step |-> Head(todo).arg.step]
    /\ UNCHANGED <<store, page, activeTweens, playing, runs, paths, cancelled, histAtPlacing>>
    /\ UNCHANGED notSimVars

(* ---- the events of the run: a tween finishes, an interval ticks ---- *)

\* a continuation that sets the velocity and never starts the translation
AfterRotationNoTranslation(t) ==
    << Op("updateTelemetry", [velocity |-> (speed * 100) \div scale]) >>

\* what follows `await` of the rotation tween (lines 138-154)
AfterRotation(t) ==
    << Op("updateTelemetry", [velocity |-> (speed * 100) \div scale]),
       Op("tween", [kind |-> "trans", run |-> t.run, index |-> t.index]) >>

\* an arrival that announces PLACING before it has stopped and counted
AfterTranslationStatusFirst(t) ==
    << Op("setSimulationStatus", "PLACING"),
       Op("updateTelemetry", [velocity |-> 0]),
       Op("arrived", [dist |-> DistPx(paths[t.run], t.index) \div scale,
                      cone |-> t.index + 1]),
       Op("clearSequenceLogs", 0),
       Op("interval", [run |-> t.run, cone |-> t.index + 1, step |-> 1]) >>

\* what follows `await` of the translation tween (lines 156-166, 51-59)
AfterTranslation(t) ==
    << Op("updateTelemetry", [velocity |-> 0]),
       Op("arrived", [dist |-> DistPx(paths[t.run], t.index) \div scale,
                      cone |-> t.index + 1]),
       Op("setSimulationStatus", "PLACING"),
       Op("clearSequenceLogs", 0),
       Op("interval", [run |-> t.run, cone |-> t.index + 1, step |-> 1]) >>

\* onFinish of a playing tween resolves the promise playNextSegment awaits
TweenFinish(t) ==
    /\ BetweenTasks
    /\ t \in playing
    /\ playing' = playing \ {t}
    /\ todo' = (IF t.kind = "rot" THEN AfterRotation(t) ELSE AfterTranslation(t))
                \o Overtaken(todo)
    /\ UNCHANGED <<store, page, activeTweens, timeouts, intervals, runs, paths,
                   cancelled, histAtPlacing, phase>>
    /\ UNCHANGED notSimVars

\* a placement whose loop over the steps stops one short
AfterStepSkipsLast(h) ==
    IF h.step < Len(HardwareSteps) - 1
    THEN << Op("interval", [run |-> h.run, cone |-> h.cone, step |-> h.step + 1]) >>
    ELSE << Op("saveHistory", h.cone),
            Op("setSimulationStatus", "MOVING"),
            Op("segment", [run |-> h.run, index |-> h.cone]) >>

\* what follows `await simulateHardwareStep(...)` of step h.step (lines 59-85, 169)
AfterStep(h) ==
    IF h.step < Len(HardwareSteps)
    THEN << Op("interval", [run |-> h.run, cone |-> h.cone, step |-> h.step + 1]) >>
    ELSE << Op("saveHistory", h.cone),
            Op("setSimulationStatus", "MOVING"),
            Op("segment", [run |-> h.run, index |-> h.cone]) >>

\* the interval callback, lines 35-45
IntervalTick(t) ==
    /\ BetweenTasks
    /\ t \in intervals
    /\ \E j \in Jitter :
         LET step == HardwareSteps[t.h.step]
             elapsed == t.elapsed + stepInterval
             report == Op("updateTelemetry", [mechanismVelocity |-> step.mechVelocity + j])
         IN  IF elapsed >= step.durationMs
             THEN /\ intervals' = intervals \ {t}
                  /\ todo' = << report,
                                Op("addSequenceLog",
                                   [step |-> step.name, timeTaken |-> step.durationMs]),
                                Op("updateTelemetry", [mechanismVelocity |-> 0]) >>
                             \o AfterStep(t.h) \o Overtaken(todo)
             ELSE /\ intervals' = (intervals \ {t}) \cup {[t EXCEPT !.elapsed = elapsed]}
                  /\ todo' = << report >> \o Overtaken(todo)
    /\ UNCHANGED <<store, page, activeTweens, timeouts, playing, runs, paths,
                   cancelled, histAtPlacing, phase>>
    /\ UNCHANGED notSimVars

Next ==
    \/ handleStartPlacing
    \/ handleStop
    \/ LeaveSession
    \/ createSession
    \/ \E id \in SessionIds : loadSessionById(id)
    \/ ExecStore
    \/ ExecEffect
    \/ ExecUnmount
    \/ ExecSegment
    \/ ExecTween
    \/ ExecInterval
    \/ \E t \in playing : TweenFinish(t)
    \/ \E t \in intervals : IntervalTick(t)

InitAll == InitTsp0 /\ InitSim /\ InitLink

Spec == InitAll /\ [][Next]_vars

(* ---- the same operations called without the buttons' disabled state ---- *)

\* resetSimulationStats called on its own, whatever the engine is doing
ApiResetSimulationStats ==
    /\ Idle
    /\ page = "session"
    /\ store.currentSession # 0
    /\ todo' = << Op("resetSimulationStats", 0) >>
    /\ UNCHANGED <<store, page, activeTweens, timeouts, playing, intervals, runs, paths,
                   cancelled, histAtPlacing, phase>>
    /\ UNCHANGED notSimVars

\* handleStartPlacing called while isSimulating is true
ApiStartPlacing ==
    /\ Idle
    /\ page = "session"
    /\ store.currentSession # 0
    /\ store.isSimulating
    /\ runs < MaxRuns
    /\ todo' = << Op("setOptimizedPath", SimplePath(SessionCones(store.currentSession))),
                  Op("resetSimulationStats", 0),
                  Op("setIsSimulating", TRUE),
                  Op("effect", 0) >>
    /\ cancelled' = NoCancel
    /\ histAtPlacing' = <<>>
    /\ UNCHANGED phase
    /\ UNCHANGED <<store, page, activeTweens, timeouts, playing, intervals, runs, paths>>
    /\ UNCHANGED notSimVars

NextApi == Next \/ ApiResetSimulationStats \/ ApiStartPlacing

SpecApi == InitAll /\ [][NextApi]_vars

(* ---- a store subscriber that throws while the engine publishes ---- *)

\* the store updates the engine makes: RobotNode.tsx lines 37, 41, 42, 55, 57,
\* 77, 84, 110-112, 141, 158, 159
PublishOps == {"updateTelemetry", "updateSimulationStats", "arrived", "addSequenceLog",
               "saveHistory", "setSimulationStatus", "clearSequenceLogs"}

\* the statement at the head of the queue is one of the engine's own updates
\* (the effect body's setSimulationStatus('MOVING'), line 103, is React's to
\* handle and is left out)
Publishing ==
    /\ todo # <<>>
    /\ Head(todo).op \in PublishOps
    /\ ~(/\ Len(todo) >= 2
         /\ todo[2].op = "segment"
         /\ todo[2].arg.index = 0)

\* an exception leaves the callback or the async function: none of its
\* remaining statements runs (there is no try/catch in RobotNode.tsx), while a
\* queued effect, a task of its own, still does
RECURSIVE DropTask(_)
DropTask(q) ==
    IF q = <<>> THEN q
    ELSE IF Head(q).op \in {"effect", "unmount"} THEN q
    ELSE DropTask(Tail(q))

\* the update at the head of the queue is stored, and a subscriber notified of
\* it throws: the exception propagates through the setter into the engine's
\* callback.  Thrown at line 37 of an interval's last tick, it skips the
\* clearInterval of line 40, so the interval stays live with its elapsed time.
SubscriberThrows ==
    /\ Publishing
    /\ store' = StoreApply(store, Head(todo))
    /\ todo' = DropTask(Tail(todo))
    /\ intervals' =
          IF /\ Head(todo).op = "updateTelemetry"
             /\ Len(todo) >= 2
             /\ todo[2].op = "addSequenceLog"
          THEN intervals \cup
                 {[h |-> [run |-> phase.run, cone |-> phase.index, step |-> phase.step],
                   elapsed |-> HardwareSteps[phase.step].durationMs]}
          ELSE intervals
    /\ UNCHANGED <<page, activeTweens, timeouts, playing, runs, paths,
                   cancelled, histAtPlacing, phase>>
    /\ UNCHANGED notSimVars

NextThrow == Next \/ SubscriberThrows

SpecThrow == InitAll /\ [][NextThrow]_vars


(* ---- runs that are left alone: the user acts only between runs ---- *)

\* a traversal is wanted or under way: the simulation is on, over a path of
\* two or more points, and has not completed
RunInProgress ==
    /\ store.isSimulating
    /\ store.simulationStatus \in {"MOVING", "PLACING"}
    /\ Len(store.optimizedPath) >= 2

\* the statements of the running task and the callbacks of tweens and timers
EngineNext ==
    \/ ExecStore
    \/ ExecEffect
    \/ ExecUnmount
    \/ ExecSegment
    \/ ExecTween
    \/ ExecInterval
    \/ \E t \in playing : TweenFinish(t)
    \/ \E t \in intervals : IntervalTick(t)

\* the user's handlers, taken only while no run is in progress
NextRun ==
    \/ ~RunInProgress /\ handleStartPlacing
    \/ ~RunInProgress /\ handleStop
    \/ ~RunInProgress /\ LeaveSession
    \/ ~RunInProgress /\ createSession
    \/ \E id \in SessionIds : ~RunInProgress /\ loadSessionById(id)
    \/ EngineNext

\* a task runs to its end, and every pending tween and timer fires
SpecRun == InitAll /\ [][NextRun]_vars /\ WF_vars(EngineNext)


InitTspAll == InitTsp /\ InitSim /\ InitLink

SpecTsp == InitTspAll /\ [][NextTsp]_vars

InitLinkAll == InitTsp0 /\ InitSim /\ InitLink

SpecLink == InitLinkAll /\ [][NextLink]_vars

SpecLinkSeq == InitLinkAll /\ [][NextLinkSeq]_vars

SpecCmd == InitLinkAll /\ [][NextCmd]_vars

-----------------------------------------------------------------------------
(* Properties of the planner, checked under SpecTsp *)

\* how often point p occurs in the list s
Occurrences(s, p) == Cardinality({k \in 1..Len(s) : s[k] = p})

\* C1: the array returned by calculateOptimalPath is a permutation of its
\* input: it has the input's length, holds every input point exactly once,
\* and holds no point with the origin's id.
C1_Permutation ==
    tspPc = "done" =>
        /\ Len(tspResult) = Len(tspPoints)
        /\ \A i \in 1..Len(tspPoints) : Occurrences(tspResult, tspPoints[i]) = 1
        /\ \A k \in 1..Len(tspResult) : tspResult[k].id # tspStart.id

\* a three-point input whose returned order differs from the input order
C1_Witness ==
    /\ tspPc = "done"
    /\ Len(tspPoints) = 3
    /\ tspResult # tspPoints
    /\ Len(tspResult) = 3

\* the exact squared Euclidean distance (no square root, no rounding)
SqDist(a, b) == Pow2(a.x - b.x) + Pow2(a.y - b.y)

\* the input positions of the points not among the first k-1 outputs
NotYetVisited(k) ==
    {i \in 1..Len(tspPoints) : \A j \in 1..(k - 1) : tspResult[j] # tspPoints[i]}

\* C2: every output[k] is, among the input points not in output[1..k-1], at
\* minimum Euclidean distance from output[k-1] (from the origin for the first
\* one), and among the points at that minimum it is the earliest of the input.
C2_NearestFirst ==
    tspPc = "done" =>
        \A k \in 1..Len(tspResult) :
            LET prev == IF k = 1 THEN tspStart ELSE tspResult[k - 1]
                rest == NotYetVisited(k)
            IN  \E c \in rest :
                    /\ tspPoints[c] = tspResult[k]
                    /\ \A i \in rest :
                          /\ SqDist(prev, tspPoints[c]) <= SqDist(prev, tspPoints[i])
                          /\ SqDist(prev, tspPoints[c]) = SqDist(prev, tspPoints[i]) => c <= i

\* a finished call in which two remaining points were equidistant from the
\* origin and the first output is not the first input
C2_Witness ==
    /\ tspPc = "done"
    /\ Len(tspPoints) = 3
    /\ SqDist(tspStart, tspPoints[2]) = SqDist(tspStart, tspPoints[3])
    /\ tspPoints[2] # tspPoints[3]
    /\ SqDist(tspStart, tspPoints[2]) < SqDist(tspStart, tspPoints[1])
    /\ tspResult[1] = tspPoints[2]

-----------------------------------------------------------------------------
(* Properties of the simulation engine *)

Pending == playing \cup intervals

\* C3: once stop has interrupted a run that was MOVING or PLACING, the status
\* is IDLE, the store stays exactly as that call left it (no telemetry, log,
\* stats, history or status update arrives), and when the handler is through
\* no tween or timer of the run is pending.  Checked under Spec.
C3_StopCancels ==
    cancelled.active =>
        /\ store.simulationStatus = "IDLE"
        /\ store = cancelled.store
        /\ Idle => Pending = {}

C5_ShortPathStartIsNoop ==
    (Idle /\ Len(store.optimizedPath) = 1) => store.simulationStatus = "IDLE"

\* C6: when a run was stopped during a placement, the history is the history
\* as it was when that placement began, and holds no entry for the waypoint
\* that was being serviced.  Checked under Spec.
C6_NoPartialEntry ==
    (cancelled.active /\ cancelled.status = "PLACING") =>
        /\ store.placementHistory = histAtPlacing
        /\ \A k \in 1..Len(store.placementHistory) :
              store.placementHistory[k].coneIndex # store.simulationStats.conesPlaced

\* C7: at most one completion event (tween or interval) is pending, it belongs
\* to the latest traversal, and when a traversal calls playNextSegment(0)
\* nothing of an earlier traversal is pending.  Checked under SpecApi, where
\* a start can happen while a run is active.
C7_OneRun ==
    /\ Cardinality(Pending) <= 1
    /\ \A t \in playing : t.run = runs
    /\ \A t \in intervals : t.h.run = runs
    /\ (todo # <<>> /\ Head(todo).op = "segment" /\ Head(todo).arg.index = 0) =>
          Pending = {}

\* a start was issued while a hardware step of the first traversal is pending:
\* the store already shows the new run and the path effect is about to rerun
C7_Witness ==
    /\ todo # <<>>
    /\ Head(todo).op = "effect"
    /\ runs = 1
    /\ intervals # {}
    /\ store.isSimulating
    /\ Len(store.optimizedPath) >= 2

\* C8: reset called while the status is MOVING or PLACING changes nothing in
\* the store.
C8_ResetWhileActiveIsNoop ==
    [][ (/\ todo # <<>>
         /\ Head(todo).op = "resetSimulationStats"
         /\ store.simulationStatus \in {"MOVING", "PLACING"}
         /\ Pending # {})
        => store' = store ]_vars

\* the length of segment i -> i+1 (1-based) of a path in field coordinates,
\* straight from the metres, in hundredths
SegmentLength(path, i) ==
    ISqrt((Pow2(path[i + 1].x - path[i].x) + Pow2(path[i + 1].y - path[i].y)) * 10000)

\* the summed length of the first k segments
TraveledAfter(path, k) == SeqSum([i \in 1..k |-> SegmentLength(path, i)])

\* how many segments the run has completed, read off its pending event
\* (or all of them once COMPLETED)
SegmentsCompleted ==
    IF store.simulationStatus = "COMPLETED" THEN Len(store.optimizedPath) - 1
    ELSE IF playing # {} THEN (CHOOSE t \in playing : TRUE).index
    ELSE (CHOOSE t \in intervals : TRUE).h.cone

\* C9: during a run started from distanceTraveled = 0 and not interrupted,
\* distanceTraveled is the summed length of the segments completed so far,
\* and at COMPLETED the summed length of all segments.  Checked under Spec.
C9_DistanceAccumulates ==
    (Idle /\ page = "session" /\ store.isSimulating /\ Len(store.optimizedPath) >= 2) =>
        /\ store.simulationStatus = "COMPLETED" \/ Pending # {}
        /\ store.simulationStats.distanceTraveled =
              TraveledAfter(store.optimizedPath, SegmentsCompleted)

\* the path 3.0 m + 4.0 m completed: 7.00
C9_Witness ==
    /\ Idle
    /\ store.simulationStatus = "COMPLETED"
    /\ store.optimizedPath = << [x |-> 0, y |-> 0], [x |-> 3, y |-> 0], [x |-> 3, y |-> 4] >>
    /\ store.simulationStats.distanceTraveled = 700

\* C15: a step that takes the status out of PLACING (other than to IDLE, by a
\* stop or a load) takes it to COMPLETED with etaSeconds = 0 and velocity = 0
\* when the placement was at the last waypoint, and to MOVING otherwise.
\* Checked under Spec.
C15_LastPlacementCompletes ==
    [][ (store.simulationStatus = "PLACING" /\ store'.simulationStatus \notin {"PLACING", "IDLE"}) =>
          IF store.simulationStats.conesPlaced = Len(store.optimizedPath) - 1
          THEN /\ store'.simulationStatus = "COMPLETED"
               /\ store'.simulationStats.etaSeconds = 0
               /\ store'.robotTelemetry.velocity = 0
          ELSE store'.simulationStatus = "MOVING" ]_vars

\* C16: while the status is MOVING or COMPLETED and a placement of the run has
\* been archived, the sequence-log buffer is empty.  Checked under Spec.
C16_LogsClearedAfterPlacement ==
    (store.simulationStatus \in {"MOVING", "COMPLETED"} /\ store.placementHistory # <<>>) =>
        store.currentSequenceLogs = <<>>

\* the handles of the pending completion events
PendingHandles == playing \cup { t.h : t \in intervals }

\* the phase that follows phase p in program order: rotate(i), translate(i),
\* steps 1..5 at waypoint i+1, rotate(i+1); a traversal opens with rotate(0)
NextPhase(p) ==
    CASE p.kind = "none"  -> [kind |-> "rot", run |-> runs, index |-> 0, step |-> 0]
      [] p.kind = "rot"   -> [p EXCEPT !.kind = "trans"]
      [] p.kind = "trans" -> [kind |-> "step", run |-> p.run, index |-> p.index + 1, step |-> 1]
      [] p.step < Len(HardwareSteps) -> [p EXCEPT !.step = p.step + 1]
      [] OTHER            -> [kind |-> "rot", run |-> p.run, index |-> p.index, step |-> 0]

\* C20: a step that begins a phase (creates a tween or a hardware-step timer)
\* is taken with no completion event pending and begins exactly the phase
\* that follows the last one begun; and the run completes only out of the
\* fifth step at the last waypoint.  Checked under Spec.
C20_PhaseOrder ==
    [][ /\ (PendingHandles' \ PendingHandles # {}) =>
              /\ PendingHandles = {}
              /\ phase' = NextPhase(phase)
              /\ Cardinality(PendingHandles') = 1
        /\ (store.simulationStatus # "COMPLETED" /\ store'.simulationStatus = "COMPLETED") =>
              /\ PendingHandles = {}
              /\ phase = [kind |-> "step", run |-> runs,
                          index |-> Len(paths[runs]) - 1, step |-> Len(HardwareSteps)] ]_vars

\* the rotation of the second segment has begun
C20_Witness ==
    /\ phase.kind = "rot"
    /\ phase.index = 1
    /\ playing # {}

\* the waypoint the engine is at: the end of the segment being translated,
\* then the waypoint whose placement steps run
Serviced == IF phase.kind = "trans" THEN phase.index + 1 ELSE phase.index

StepNames ==
    << "LOWERING_CLAW_SERVO_A1", "ENGAGING_GRIPPER_SOLENOID", "LIFTING_PAYLOAD_Z_AXIS",
       "ACTIVATING_SPIRAL_GYRO", "PAYLOAD_SECURED_CONFIRMED" >>

\* the names in the log buffer are the first names of the sequence
LogsArePrefix(logs) ==
    /\ Len(logs) <= Len(StepNames)
    /\ \A i \in 1..Len(logs) : logs[i].step = StepNames[i]

\* C22: while the status is PLACING the log buffer is a prefix of the five
\* step names in their fixed order; a step that lengthens the buffer appends
\* exactly one entry, named after the step in progress, as that step's
\* ordinal entry; and the next step's timer is created, and the placement is
\* saved, with mechanismVelocity back at 0.  Checked under Spec.
C22_StepsInOrder ==
    /\ [](store.simulationStatus = "PLACING" => LogsArePrefix(store.currentSequenceLogs))
    /\ [][ /\ (Len(store'.currentSequenceLogs) > Len(store.currentSequenceLogs)) =>
                /\ phase.kind = "step"
                /\ Len(store'.currentSequenceLogs) = phase.step
                /\ store'.currentSequenceLogs =
                      Append(store.currentSequenceLogs,
                             store'.currentSequenceLogs[phase.step])
                /\ store'.currentSequenceLogs[phase.step].step = StepNames[phase.step]
           /\ (intervals' \ intervals # {} /\ phase'.kind = "step" /\ phase' # phase) =>
                /\ store.robotTelemetry.mechanismVelocity = 0
                /\ Len(store.currentSequenceLogs) = phase'.step - 1
           /\ (Len(store'.placementHistory) > Len(store.placementHistory)) =>
                store.robotTelemetry.mechanismVelocity = 0 ]_vars

\* three steps are logged and the fourth is running
C22_Witness ==
    /\ store.simulationStatus = "PLACING"
    /\ Len(store.currentSequenceLogs) = 3
    /\ phase.kind = "step"
    /\ phase.step = 4
    /\ intervals # {}
    /\ store.robotTelemetry.mechanismVelocity # 0

\* the coneIndex of the entries falls strictly from the front to the back
NewestFirst(h) == \A i \in 1..Len(h) - 1 : h[i].coneIndex > h[i + 1].coneIndex

\* C23: a step that changes the placement history either empties it (reset,
\* session load, session creation) or puts exactly one entry at the front, with
\* the index of the waypoint just serviced and the complete five-entry log of
\* its placement, the older entries unchanged behind it; and coneIndex falls
\* strictly from the front to the back.  Checked under Spec.
C23_HistoryNewestFirst ==
    /\ [](NewestFirst(store.placementHistory))
    /\ [][ store'.placementHistory # store.placementHistory =>
              \/ store'.placementHistory = <<>>
              \/ /\ Len(store'.placementHistory) = Len(store.placementHistory) + 1
                 /\ Tail(store'.placementHistory) = store.placementHistory
                 /\ Head(store'.placementHistory).coneIndex = phase.index
                 /\ phase.kind = "step"
                 /\ Len(Head(store'.placementHistory).logs) = Len(StepNames)
                 /\ LogsArePrefix(Head(store'.placementHistory).logs) ]_vars

\* two placements are in the history, the second waypoint's in front
C23_Witness ==
    /\ Len(store.placementHistory) = 2
    /\ store.placementHistory[1].coneIndex = 2
    /\ store.placementHistory[2].coneIndex = 1

\* C24: in every reachable state the placement history has at most conesPlaced
\* entries.  Holds under Spec, where the reset runs only inside a start; fails
\* under SpecApi, where resetSimulationStats is called while a placement runs.
C24_HistoryWithinCount ==
    Len(store.placementHistory) <= store.simulationStats.conesPlaced

\* conesPlaced or distanceTraveled is smaller after the step than before
CounterDecreases ==
    \/ store'.simulationStats.conesPlaced < store.simulationStats.conesPlaced
    \/ store'.simulationStats.distanceTraveled < store.simulationStats.distanceTraveled

\* the step runs statement `name` and leaves both counters at 0
ZeroedBy(name) ==
    /\ todo # <<>>
    /\ Head(todo).op = name
    /\ store'.simulationStats.conesPlaced = 0
    /\ store'.simulationStats.distanceTraveled = 0

C26_RunSurvivesSubscriber ==
    (/\ Idle
     /\ page = "session"
     /\ store.isSimulating
     /\ phase.kind # "none"
     /\ store.simulationStatus # "COMPLETED") => PendingHandles # {}

\* C27: a run over a path of two or more points that is not stopped leads to
\* status COMPLETED; once the completing task is through, no tween or timer is
\* pending; and the status leaves COMPLETED only in a stop, a reset or a
\* session load.  Checked under SpecRun (every pending tween and timer fires).
C27_RunCompletes ==
    /\ RunInProgress ~> (store.simulationStatus = "COMPLETED")
    /\ []((store.simulationStatus = "COMPLETED" /\ Idle) => PendingHandles = {})
    /\ [][ (store.simulationStatus = "COMPLETED" /\ store'.simulationStatus # "COMPLETED") =>
              /\ todo # <<>>
              /\ Head(todo).op \in {"setIsSimulating", "resetSimulationStats", "loadSession"}
       ]_vars

\* a second run has completed
C27_Witness ==
    /\ store.simulationStatus = "COMPLETED"
    /\ Idle
    /\ runs = 2
    /\ Len(store.placementHistory) = Len(store.optimizedPath) - 1

\* the step runs setIsSimulating(false), the one store update of handleStop
StopStep ==
    /\ todo # <<>>
    /\ Head(todo).op = "setIsSimulating"
    /\ Head(todo).arg = FALSE
    /\ todo' = Tail(todo)

\* C28: the step of setIsSimulating(false) sets isSimulating to false and the
\* status to IDLE and leaves every other field of the store as it was:
\* simulationStats, placementHistory, currentSequenceLogs, robotTelemetry and
\* optimizedPath; and the cleanup that follows it does not write the store.
\* Checked under Spec.
C28_StopFrame ==
    [][ /\ StopStep =>
             /\ ~store'.isSimulating
             /\ store'.simulationStatus = "IDLE"
             /\ store'.simulationStats = store.simulationStats
             /\ store'.placementHistory = store.placementHistory
             /\ store'.currentSequenceLogs = store.currentSequenceLogs
             /\ store'.robotTelemetry = store.robotTelemetry
             /\ store'.optimizedPath = store.optimizedPath
             /\ store'.currentSession = store.currentSession
        /\ (todo # <<>> /\ Head(todo).op = "effect" /\ todo' = Tail(todo)) =>
             store' = store ]_vars

\* a stop in mid-translation is through: IDLE, nothing pending, and the
\* velocity still that of the translation
C28_Witness ==
    /\ Idle
    /\ cancelled.active
    /\ ~store.isSimulating
    /\ store.simulationStatus = "IDLE"
    /\ PendingHandles = {}
    /\ store.robotTelemetry.velocity # 0
    /\ store.simulationStats.conesPlaced = 1

\* a stop in mid-step is through, and the mechanism velocity still that of
\* the step's last report
C28_WitnessStep ==
    /\ Idle
    /\ cancelled.active
    /\ store.simulationStatus = "IDLE"
    /\ PendingHandles = {}
    /\ store.robotTelemetry.mechanismVelocity # 0
    /\ Len(store.currentSequenceLogs) = 2

\* C30: etaSeconds is 0 in every reachable state.  Checked under SpecApi.
C30_EtaZero == store.simulationStats.etaSeconds = 0

\* a run has completed, after the engine's own write of etaSeconds
C30_Witness ==
    /\ store.simulationStatus = "COMPLETED"
    /\ Idle
    /\ store.simulationStats.distanceTraveled > 0
    /\ store.simulationStats.etaSeconds = 0

-----------------------------------------------------------------------------
(* Properties of the link client, checked under SpecLink *)

\* C11: a connect whose probe is rejected or not OK fails and leaves the client
\* disconnected with no poll timer (a connect to the unreachable address never
\* succeeds); a connect that succeeds leaves it connected with its poll timer
\* live, and the poses that timer's polls fetch reach the pose callback.
\* Checked under SpecLinkSeq, where each connect is awaited before the next call.
C11_ConnectOutcome ==
    /\ event.type = "connectFailed" =>
          /\ connectResult[event.by] = "failed"
          /\ ~connected
          /\ pollInterval = 0
          /\ liveTimers = {}
    /\ event.type = "connectOk" =>
          /\ connectResult[event.by] = "ok"
          /\ event.url.host = "up"
          /\ connected
          /\ lastConnCb = "true"
          /\ pollInterval = event.by
          /\ liveTimers = {event.by}
    /\ event.type = "pose" => connectResult[event.by] = "ok"

\* the first connect failed, the second succeeded and its poll delivered a pose
C11_Witness ==
    /\ connectResult = <<"failed", "ok">>
    /\ connected
    /\ event = [type |-> "pose", by |-> 2]

\* C12: a failed poll of the established connection leaves the client
\* disconnected, the callback told so and no poll timer live; and from a
\* disconnected client with no connect in flight no step other than a call of
\* connect issues a poll or makes the client connected.  Checked under
\* SpecLinkSeq.
C12_PollFailureDisconnects ==
    [][ /\ (event'.type = "pollFailed" /\ event'.by = pollInterval) =>
              /\ ~connected'
              /\ lastConnCb' = "false"
              /\ pollInterval' = 0
              /\ liveTimers' = {}
        /\ (~connected /\ Awaited /\ event'.type # "connect") =>
              /\ ~connected'
              /\ event'.type # "tick" ]_vars

\* the poll of the latest connection has just failed
C12_Witness ==
    /\ event.type = "pollFailed"
    /\ event.by = connects
    /\ connectResult[event.by] = "ok"
    /\ ~sinceDisconnect
    /\ ~connected
    /\ lastConnCb = "false"

\* C13: disconnect applied to a state it has already been applied to changes
\* nothing, and applied to a disconnected client (connected false, no poll
\* timer, empty base URL) it changes nothing the client or its callbacks show.
C13_DisconnectIdempotent ==
    /\ DisconnectOf(DisconnectOf(LinkState)) = DisconnectOf(LinkState)
    /\ (~connected /\ pollInterval = 0 /\ baseUrl = NoUrl) =>
          DisconnectOf(LinkState) = LinkState

\* disconnect was called on a client that a failed poll had already
\* disconnected
C13_Witness ==
    /\ event.type = "disconnect"
    /\ connectResult = <<"ok">>
    /\ lastConnCb = "false"
    /\ ~connected
    /\ pollInterval = 0
    /\ baseUrl = NoUrl

\* C14: a command never throws to its caller and issues at most one request;
\* called without a connection it issues none and returns void, false or
\* null; and when its request fails (the fetch rejects or the response is not
\* OK) it returns void, false or null.  Checked under SpecCmd.
C14_CommandsNeverThrow ==
    event.type = "return" =>
        /\ event.value # "throws"
        /\ event.sent <= 1
        /\ ~event.wasConnected =>
              (event.sent = 0 /\ event.value = NotConnectedReturn(event.op))
        /\ event.failed => event.value \in {"void", "false", "null"}

\* C17: the response of a poll whose timer has been cleared (its connection
\* was torn down by disconnect or by a new connect) has no effect: it delivers
\* no pose and changes neither connected, the poll timer, the base URL nor
\* what the connection callback was told.
C17_StalePollIgnored ==
    [][ (event'.type \in {"pose", "pollNotOk", "pollFailed"} /\ event'.by \notin liveTimers) =>
            /\ event'.type # "pose"
            /\ UNCHANGED <<connected, pollInterval, liveTimers, baseUrl, lastConnCb,
                           posesFrom>> ]_vars

\* C18: from a caller's disconnect until connect is called again, connected
\* is false and the client holds no poll timer.
C18_DisconnectHolds ==
    sinceDisconnect => (~connected /\ pollInterval = 0)

\* C19: what the connection callback was last told is the value of connected
\* (nothing told yet: connected is still false).
C19_CallbackTracksConnected ==
    IF connected THEN lastConnCb = "true" ELSE lastConnCb \in {"none", "false"}

\* C29: a poll answered with a response that is not OK delivers no pose and
\* leaves connected, the poll timer, the base URL and the connection callback
\* as they were; a poll that delivers a pose leaves connected and the timer as
\* they were; so the only poll response after which a connected client is
\* disconnected is one whose request threw.  Checked under SpecLink.
C29_NotOkPollIgnored ==
    [][ /\ event'.type = "pollNotOk" =>
              /\ UNCHANGED <<connected, pollInterval, liveTimers, baseUrl, lastConnCb>>
              /\ posesFrom' = posesFrom
        /\ event'.type = "pose" =>
              UNCHANGED <<connected, pollInterval, liveTimers>>
        /\ (event'.type \in {"pose", "pollNotOk", "pollFailed"} /\ connected /\ ~connected') =>
              event'.type = "pollFailed" ]_vars

\* the poll of the live connection was just answered with a non-OK response:
\* still connected, its timer still live, no pose delivered by it
C29_Witness ==
    /\ event.type = "pollNotOk"
    /\ event.by = pollInterval
    /\ connected
    /\ pollInterval \in liveTimers
    /\ lastConnCb = "true"
    /\ pollInterval \notin posesFrom

\* C10: at every moment the client has at most one live poll timer.
C10_OnePollTimer == Cardinality(liveTimers) <= 1

====
